---- MODULE Spec2Model ----
(***************************************************************************)
(* A model of lcov-report-action (src/index.js): the LCOV parser, the      *)
(* coverage aggregator, the changed-files table ordering, the run          *)
(* pipeline with its single top-level catch, and the update-or-create      *)
(* reconciliation of the marker comment.                                    *)
(*                                                                         *)
(* Conventions.                                                            *)
(*  - A JavaScript number is a record [nan, v]: NaN, or the integer v.     *)
(*  - A percentage is a record [nan, num, den] with den > 0: the exact     *)
(*    rational num/den.  The code computes (hit / found) * 100 in doubles; *)
(*    for the magnitudes of the model two percentages are equal, or        *)
(*    ordered, as doubles exactly when they are as rationals.              *)
(*  - An optional value (null or an object) is a sequence of length <= 1.  *)
(*  - A text line is a record [tag, rest]: the line is the string tag      *)
(*    followed by the characters (or path segments) of rest.               *)
(***************************************************************************)
EXTENDS Integers, Sequences, FiniteSets, TLC

VARIABLES
    content,      \* parser: the lines of the file being scanned
    idx,          \* parser: index of the next line of the for-loop
    files,        \* parser: the result array
    currentFile,  \* parser: the record in progress (optional)
    report,       \* aggregator: the coverage argument
    filter,       \* aggregator: the changedFiles argument (optional set)
    total,        \* aggregator: the value calculateCoverage returned (optional)
    sortedFiles,  \* table: the sortedFiles of buildChangedFilesSection (optional)
    input,        \* run: the action inputs, the event and what the platform holds
    pc,           \* per invocation: the statement it is at
    local,        \* run: coverage, changedFiles, the aggregates, passed
    failed,       \* run: the messages handed to core.setFailed, in order
    calls,        \* the number of calls made of each platform operation
    thrown,       \* run: the statement whose error reached the catch ("" if none)
    comment,      \* per invocation: the comment argument of postComment
    existing,     \* per invocation: the id found by postComment (optional)
    comments,     \* the comments of the pull request, oldest first
    comments0,    \* the comments of the pull request at the start
    runs,         \* the number of completed postComment calls
    lastDoc       \* the comment argument of the last completed postComment (optional)

parseVars == <<content, idx, files, currentFile>>

aggVars == <<report, filter, total, sortedFiles>>

runVars == <<input, local, failed, thrown>>

postVars == <<pc, calls, comment, existing, comments, comments0, runs, lastDoc>>

vars == <<parseVars, aggVars, runVars, postVars>>

----------------------------------------------------------------------------
(* Bounds of the model *)

MaxLines == 4

MaxFiles == 3

MaxRuns == 3

MaxTail == 2

----------------------------------------------------------------------------
(* JavaScript numbers *)

NaN == [nan |-> TRUE, v |-> 0]

Num(n) == [nan |-> FALSE, v |-> n]

NumAdd(a, b) == IF a.nan \/ b.nan THEN NaN ELSE Num(a.v + b.v)

NumGtZero(a) == ~a.nan /\ a.v > 0

NumIsZero(a) == ~a.nan /\ a.v = 0

----------------------------------------------------------------------------
(* parseInt(text, 10) *)

Digits == {"0", "1", "2", "3", "4", "5", "6", "7", "8", "9"}

DigitVal(c) ==
    CASE c = "0" -> 0 [] c = "1" -> 1 [] c = "2" -> 2 [] c = "3" -> 3
      [] c = "4" -> 4 [] c = "5" -> 5 [] c = "6" -> 6 [] c = "7" -> 7
      [] c = "8" -> 8 [] c = "9" -> 9

RECURSIVE SkipSpaces(_, _)
SkipSpaces(s, i) ==
    IF i <= Len(s) /\ s[i] = " " THEN SkipSpaces(s, i + 1) ELSE i

RECURSIVE ParseDigits(_, _, _)
ParseDigits(s, i, acc) ==
    IF i <= Len(s) /\ s[i] \in Digits
    THEN ParseDigits(s, i + 1, acc * 10 + DigitVal(s[i]))
    ELSE acc

parseInt(s) ==
    LET i0 == SkipSpaces(s, 1)
        signed == i0 <= Len(s) /\ s[i0] \in {"-", "+"}
        sign == IF signed /\ s[i0] = "-" THEN -1 ELSE 1
        i1 == IF signed THEN i0 + 1 ELSE i0
    IN  IF i1 <= Len(s) /\ s[i1] \in Digits
        THEN Num(sign * ParseDigits(s, i1, 0))
        ELSE NaN

----------------------------------------------------------------------------
(* parseLcovFile *)

\* line.startsWith(prefix): the tags are the prefixes the code tests for
StartsWith(line, prefix) == line.tag = prefix

\* line === 'end_of_record'
IsEndOfRecord(line) == line.tag = "end_of_record" /\ line.rest = <<>>

\* relative(cwd, resolve(cwd, path)) of a relative path without "..":
\* the "." and empty segments disappear
RelativePath(segs) == SelectSeq(segs, LAMBDA s : s \notin {".", ""})

NewRecord(segs) ==
    [file |-> RelativePath(segs), lines |-> [found |-> Num(0), hit |-> Num(0)]]

ParseStep_EmitOnSF(st, line) ==
    IF StartsWith(line, "SF:")
    THEN [files |-> st.files \o st.currentFile,
          currentFile |-> <<NewRecord(line.rest)>>]
    ELSE IF StartsWith(line, "LF:") /\ st.currentFile # <<>>
    THEN [st EXCEPT !.currentFile[1].lines.found = parseInt(line.rest)]
    ELSE IF StartsWith(line, "LH:") /\ st.currentFile # <<>>
    THEN [st EXCEPT !.currentFile[1].lines.hit = parseInt(line.rest)]
    ELSE IF IsEndOfRecord(line) /\ st.currentFile # <<>>
    THEN [files |-> Append(st.files, st.currentFile[1]), currentFile |-> <<>>]
    ELSE st

\* the body of the for-loop, on the pair (files, currentFile)
ParseStep(st, line) ==
    IF StartsWith(line, "SF:")
    THEN [files |-> st.files, currentFile |-> <<NewRecord(line.rest)>>]
    ELSE IF StartsWith(line, "LF:") /\ st.currentFile # <<>>
    THEN [st EXCEPT !.currentFile[1].lines.found = parseInt(line.rest)]
    ELSE IF StartsWith(line, "LH:") /\ st.currentFile # <<>>
    THEN [st EXCEPT !.currentFile[1].lines.hit = parseInt(line.rest)]
    ELSE IF IsEndOfRecord(line) /\ st.currentFile # <<>>
    THEN [files |-> Append(st.files, st.currentFile[1]), currentFile |-> <<>>]
    ELSE st

RECURSIVE ParseFrom(_, _, _)
ParseFrom(ls, i, st) ==
    IF i > Len(ls) THEN st ELSE ParseFrom(ls, i + 1, ParseStep(st, ls[i]))

parseLcovFile(ls) == ParseFrom(ls, 1, [files |-> <<>>, currentFile |-> <<>>]).files

----------------------------------------------------------------------------
(* The parser, line by line *)

Line(tag, rest) == [tag |-> tag, rest |-> rest]

\* the lines the scans of the model are made of
LineAlphabet ==
    { Line("SF:", <<"a">>), Line("SF:", <<".", "b">>),
      Line("LF:", <<"3">>), Line("LF:", <<"x">>),
      Line("LH:", <<"2">>), Line("LH:", <<"-", "1">>), Line("LH:", <<>>),
      Line("end_of_record", <<>>), Line("end_of_record", <<" ">>),
      Line("DA:", <<"1">>) }

BoundedSeq(S, n) == UNION { [1..k -> S] : k \in 0..n }

AggIdle ==
    /\ report = <<>>
    /\ filter = <<>>
    /\ total = <<>>
    /\ sortedFiles = <<>>

Procs == {1, 2}

NoCalls == [compare |-> 0, list |-> 0, create |-> 0, update |-> 0]

NoInput ==
    [lcovExists |-> FALSE, lcovContent |-> <<>>, eventName |-> "push",
     allMin |-> NaN, changedMin |-> NaN, apiFiles |-> {}, testSummary |-> <<>>]

NoLocal ==
    [coverage |-> <<>>, changedFiles |-> {}, allCoverage |-> <<>>,
     changedCoverage |-> <<>>, passed |-> TRUE]

RunIdle ==
    /\ input = NoInput
    /\ local = NoLocal
    /\ failed = <<>>
    /\ thrown = ""

PostIdle ==
    /\ pc = [p \in Procs |-> "off"]
    /\ calls = NoCalls
    /\ comment = [p \in Procs |-> <<>>]
    /\ existing = [p \in Procs |-> <<>>]
    /\ comments = <<>>
    /\ comments0 = <<>>
    /\ runs = 0
    /\ lastDoc = <<>>

ParseInit ==
    /\ AggIdle
    /\ RunIdle
    /\ PostIdle
    /\ content \in BoundedSeq(LineAlphabet, MaxLines)
    /\ idx = 1
    /\ files = <<>>
    /\ currentFile = <<>>

ParseLine ==
    /\ idx <= Len(content)
    /\ LET st == ParseStep([files |-> files, currentFile |-> currentFile],
                           content[idx])
       IN  /\ files' = st.files
           /\ currentFile' = st.currentFile
    /\ idx' = idx + 1
    /\ UNCHANGED <<content, aggVars, runVars, postVars>>

ParseNext == ParseLine

SpecParse == ParseInit /\ [][ParseNext]_vars

----------------------------------------------------------------------------
(* C9 *)

IsSF(l) == l.tag = "SF:"

MaxOf(S) == CHOOSE m \in S : \A k \in S : k <= m

\* the SF line whose record is open just before line i, if any
OpenerBefore(ls, i) ==
    { j \in 1..(i - 1) :
        /\ IsSF(ls[j])
        /\ \A k \in (j + 1)..(i - 1) : ~IsSF(ls[k]) /\ ~IsEndOfRecord(ls[k]) }

LastValue(ls, j, i, tag) ==
    LET S == { k \in (j + 1)..(i - 1) : ls[k].tag = tag }
    IN  IF S = {} THEN Num(0) ELSE parseInt(ls[MaxOf(S)].rest)

RecordOf(ls, j, i) ==
    [file |-> RelativePath(ls[j].rest),
     lines |-> [found |-> LastValue(ls, j, i, "LF:"),
                hit |-> LastValue(ls, j, i, "LH:")]]

ClosingLines(ls) ==
    { i \in 1..Len(ls) : IsEndOfRecord(ls[i]) /\ OpenerBefore(ls, i) # {} }

RECURSIVE InOrder(_, _)
InOrder(ls, S) ==
    IF S = {} THEN <<>>
    ELSE LET i == MaxOf(S)
         IN  Append(InOrder(ls, S \ {i}),
                    RecordOf(ls, MaxOf(OpenerBefore(ls, i)), i))

ExpectedFiles(ls) == InOrder(ls, ClosingLines(ls))

ExpectedOpen(ls) ==
    LET n == Len(ls) + 1
    IN  IF OpenerBefore(ls, n) = {} THEN <<>>
        ELSE <<RecordOf(ls, MaxOf(OpenerBefore(ls, n)), n)>>

\* C9: after any number of lines, the result holds, in source order, exactly
\* one record per 'end_of_record' line met while a record was open, each with
\* the path of the 'SF:' line that opened it and the values of the last
\* 'LF:'/'LH:' lines since (0 when there is none), and the record in progress
\* is the one opened by the last 'SF:' line not yet closed; so an 'SF:' line
\* discards an open record, lines outside a record and other lines change
\* nothing, and a record open at the end of the input is not in the result.
C9_ParserEmitsClosedRecords ==
    LET seen == SubSeq(content, 1, idx - 1)
    IN  /\ files = ExpectedFiles(seen)
        /\ currentFile = ExpectedOpen(seen)

\* a finished scan that discarded an open record, emitted a record without an
\* 'LH:' line and ended with a record still open
C9_Witness ==
    /\ idx > Len(content)
    /\ Len(files) = 1
    /\ files[1].lines.hit = Num(0)
    /\ files[1].lines.found = Num(3)
    /\ currentFile # <<>>
    /\ Cardinality({ i \in 1..Len(content) : IsSF(content[i]) }) >= 2

----------------------------------------------------------------------------
(* calculatePercentage, calculateCoverage *)

PctZero == [nan |-> FALSE, num |-> 0, den |-> 1]

PctNaN == [nan |-> TRUE, num |-> 0, den |-> 1]

calculatePercentage_Swapped(hit, found) ==
    IF NumGtZero(found)
    THEN IF hit.nan THEN PctNaN
         ELSE IF hit.v > 0 THEN [nan |-> FALSE, num |-> 100 * found.v, den |-> hit.v]
         ELSE PctZero
    ELSE PctZero

\* found > 0 ? (hit / found) * 100 : 0
calculatePercentage(hit, found) ==
    IF NumGtZero(found)
    THEN IF hit.nan THEN PctNaN
         ELSE [nan |-> FALSE, num |-> 100 * hit.v, den |-> found.v]
    ELSE PctZero

\* coverage.filter(f => changedFiles.has(f.file))
RECURSIVE FilterFiles(_, _)
FilterFiles(coverage, set) ==
    IF coverage = <<>> THEN <<>>
    ELSE LET rest == FilterFiles(Tail(coverage), set)
         IN  IF Head(coverage).file \in set THEN <<Head(coverage)>> \o rest
             ELSE rest

\* filtered.reduce(..., { found: 0, hit: 0, files: [] })
RECURSIVE Reduce(_, _)
Reduce(filtered, acc) ==
    IF filtered = <<>> THEN acc
    ELSE LET f == Head(filtered)
         IN  Reduce(Tail(filtered),
                    [found |-> NumAdd(acc.found, f.lines.found),
                     hit |-> NumAdd(acc.hit, f.lines.hit),
                     files |-> Append(acc.files, f)])

calculateCoverage_NoFilter(coverage, changedFiles) ==
    IF coverage = <<>>
    THEN [found |-> Num(0), hit |-> Num(0), percentage |-> PctZero, files |-> <<>>]
    ELSE LET t == Reduce(coverage, [found |-> Num(0), hit |-> Num(0), files |-> <<>>])
         IN  [found |-> t.found, hit |-> t.hit,
              percentage |-> calculatePercentage(t.hit, t.found),
              files |-> t.files]

\* changedFiles is null (<<>>) or a Set (<<set>>)
calculateCoverage(coverage, changedFiles) ==
    LET filtered ==
            IF changedFiles # <<>> /\ Cardinality(changedFiles[1]) > 0
            THEN FilterFiles(coverage, changedFiles[1])
            ELSE coverage
    IN  IF Len(filtered) = 0
        THEN [found |-> Num(0), hit |-> Num(0), percentage |-> PctZero,
              files |-> <<>>]
        ELSE LET t == Reduce(filtered,
                             [found |-> Num(0), hit |-> Num(0), files |-> <<>>])
             IN  [found |-> t.found, hit |-> t.hit,
                  percentage |-> calculatePercentage(t.hit, t.found),
                  files |-> t.files]

----------------------------------------------------------------------------
(* The ordering of the changed-files table *)

Sign(n) == IF n < 0 THEN -1 ELSE IF n > 0 THEN 1 ELSE 0

\* aPct !== bPct
PctDiffer(a, b) == a.nan \/ b.nan \/ a.num * b.den # b.num * a.den

\* the sign of aPct - bPct; NaN counts as 0, as the sort treats it
PctSubSign(a, b) ==
    IF a.nan \/ b.nan THEN 0 ELSE Sign(a.num * b.den - b.num * a.den)

\* the sign of b.lines.found - a.lines.found; NaN counts as 0
NumSubSign(b, a) == IF a.nan \/ b.nan THEN 0 ELSE Sign(b.v - a.v)

\* the comparator handed to sort
Compare(a, b) ==
    IF NumIsZero(a.lines.found) /\ NumIsZero(b.lines.found) THEN 0
    ELSE IF NumIsZero(a.lines.found) THEN 1
    ELSE IF NumIsZero(b.lines.found) THEN -1
    ELSE LET aPct == calculatePercentage(a.lines.hit, a.lines.found)
             bPct == calculatePercentage(b.lines.hit, b.lines.found)
         IN  IF PctDiffer(aPct, bPct) THEN PctSubSign(aPct, bPct)
             ELSE NumSubSign(b.lines.found, a.lines.found)

Reverse(s) == [i \in 1..Len(s) |-> s[Len(s) + 1 - i]]

\* Array.prototype.sort as Node runs it on an array shorter than 64: the
\* leading run is counted (and reversed when strictly descending), the rest
\* is inserted by binary search
RECURSIVE ExtendRun(_, _, _)
ExtendRun(s, k, desc) ==
    IF k >= Len(s) THEN k
    ELSE LET order == Compare(s[k + 1], s[k])
         IN  IF (desc /\ order >= 0) \/ (~desc /\ order < 0) THEN k
             ELSE ExtendRun(s, k + 1, desc)

CountAndMakeRun(s) ==
    LET desc == Compare(s[2], s[1]) < 0
        k == ExtendRun(s, 2, desc)
    IN  [run |-> k,
         arr |-> IF desc THEN Reverse(SubSeq(s, 1, k)) \o SubSeq(s, k + 1, Len(s))
                 ELSE s]

RECURSIVE BinarySearch(_, _, _, _)
BinarySearch(s, pivot, left, right) ==
    IF left >= right THEN left
    ELSE LET mid == left + ((right - left) \div 2)
         IN  IF Compare(pivot, s[mid]) < 0
             THEN BinarySearch(s, pivot, left, mid)
             ELSE BinarySearch(s, pivot, mid + 1, right)

RECURSIVE BinaryInsertionSort(_, _)
BinaryInsertionSort(s, start) ==
    IF start > Len(s) THEN s
    ELSE LET pivot == s[start]
             pos == BinarySearch(s, pivot, 1, start)
         IN  BinaryInsertionSort(
                 SubSeq(s, 1, pos - 1) \o <<pivot>> \o SubSeq(s, pos, start - 1)
                     \o SubSeq(s, start + 1, Len(s)),
                 start + 1)

\* [...cov.files].sort(comparator)
SortFiles(fs) ==
    IF Len(fs) < 2 THEN fs
    ELSE LET r == CountAndMakeRun(fs)
         IN  BinaryInsertionSort(r.arr, r.run + 1)

----------------------------------------------------------------------------
(* The aggregator and the table ordering, on every report the parser returns *)

Paths == {<<"a">>, <<"b">>}

\* the (found, hit) pairs of the records of the model
Counts ==
    { <<Num(0), Num(0)>>, <<Num(2), Num(1)>>, <<Num(4), Num(2)>>,
      <<Num(2), Num(3)>>, <<Num(2), NaN>>,
      <<NaN, Num(1)>>, <<Num(-1), Num(1)>>, <<Num(2), Num(-1)>> }

FileCoverage ==
    { [file |-> p, lines |-> [found |-> c[1], hit |-> c[2]]] :
        p \in Paths, c \in Counts }

Filters == { <<>>, <<{}>>, <<{<<"a">>}>>, <<{<<"c">>}>> }

ParseIdle ==
    /\ content = <<>>
    /\ idx = 1
    /\ files = <<>>
    /\ currentFile = <<>>

AggInit ==
    /\ ParseIdle
    /\ RunIdle
    /\ PostIdle
    /\ report \in BoundedSeq(FileCoverage, MaxFiles)
    /\ filter \in Filters
    /\ total = <<>>
    /\ sortedFiles = <<>>

\* a call of calculateCoverage
Aggregate ==
    /\ total = <<>>
    /\ total' = <<calculateCoverage(report, filter)>>
    /\ UNCHANGED <<report, filter, sortedFiles, parseVars, runVars, postVars>>

\* buildChangedFilesSection on the aggregate, past its early return
SortTable ==
    /\ total # <<>>
    /\ sortedFiles = <<>>
    /\ ~NumIsZero(total[1].found)
    /\ sortedFiles' = <<SortFiles(total[1].files)>>
    /\ UNCHANGED <<report, filter, total, parseVars, runVars, postVars>>

AggNext == Aggregate \/ SortTable

SpecAgg == AggInit /\ [][AggNext]_vars

----------------------------------------------------------------------------
(* C7, C8: the aggregate, stated from the report *)

\* the entries kept: those of the filter when it is given and not empty
Retained(rep, flt) ==
    IF flt # <<>> /\ flt[1] # {}
    THEN SelectSeq(rep, LAMBDA f : f.file \in flt[1])
    ELSE rep

RECURSIVE SumFound(_, _)
SumFound(fs, n) ==
    IF n = 0 THEN Num(0) ELSE NumAdd(SumFound(fs, n - 1), fs[n].lines.found)

RECURSIVE SumHit(_, _)
SumHit(fs, n) ==
    IF n = 0 THEN Num(0) ELSE NumAdd(SumHit(fs, n - 1), fs[n].lines.hit)

\* the number 100 * hit / found, found # 0
Quotient(hit, found) ==
    IF hit.nan \/ found.nan THEN PctNaN
    ELSE IF found.v > 0 THEN [nan |-> FALSE, num |-> 100 * hit.v, den |-> found.v]
    ELSE [nan |-> FALSE, num |-> -(100 * hit.v), den |-> -found.v]

\* a and b are the same number (NaN taken as one value)
PctSame(a, b) ==
    \/ a.nan /\ b.nan
    \/ ~a.nan /\ ~b.nan /\ a.num * b.den = b.num * a.den

PctInRange(p) == ~p.nan /\ 0 <= p.num /\ p.num <= 100 * p.den

AggregateIs(t, kept, pct) ==
    /\ t.found = SumFound(kept, Len(kept))
    /\ t.hit = SumHit(kept, Len(kept))
    /\ t.files = kept
    /\ PctSame(t.percentage, pct)
    /\ kept = <<>> =>
         t = [found |-> Num(0), hit |-> Num(0), percentage |-> PctZero,
              files |-> <<>>]

\* C7 as stated: for every report and filter the aggregate has the retained
\* entries in report order, the sums of their found and hit, and percentage 0
\* when found = 0 and 100 * hit / found otherwise.
C7_AsStated ==
    total # <<>> =>
        LET kept == Retained(report, filter)
            found == SumFound(kept, Len(kept))
            hit == SumHit(kept, Len(kept))
        IN  AggregateIs(total[1], kept,
                        IF NumIsZero(found) THEN PctZero ELSE Quotient(hit, found))

\* C7 (amended): for every report and filter the aggregate has the retained
\* entries in report order, the sums of their found and hit, and percentage 0
\* whenever found is not a positive number (zero, negative or NaN) and
\* 100 * hit / found otherwise; exactly {0, 0, 0, []} when nothing is retained.
\* The inputs are left as they were.
C7_AggregateOfRetained ==
    total # <<>> =>
        LET kept == Retained(report, filter)
            found == SumFound(kept, Len(kept))
            hit == SumHit(kept, Len(kept))
        IN  AggregateIs(total[1], kept,
                        IF NumGtZero(found) THEN Quotient(hit, found) ELSE PctZero)

\* an aggregate over a filter that dropped an entry and kept one with lines
C7_Witness ==
    /\ total # <<>>
    /\ filter # <<>> /\ filter[1] # {}
    /\ 0 < Len(total[1].files) /\ Len(total[1].files) < Len(report)
    /\ NumGtZero(total[1].found)
    /\ total[1].percentage = [nan |-> FALSE, num |-> 100, den |-> 2]

\* C8 as stated: for every report the parser can produce and every filter,
\* the percentage of the aggregate lies in [0, 100].
C8_AsStated == total # <<>> => PctInRange(total[1].percentage)

\* C8 (amended): the percentage of the aggregate lies in [0, 100] exactly
\* when the retained total of found is not a positive number or the retained
\* total of hit is a number with 0 <= hit <= found; so it does for every
\* report whose records have 0 <= hit <= found, and it does not when hit
\* exceeds found, is negative or is NaN over a positive found.
C8_InRangeIffHitWithinFound ==
    total # <<>> =>
        LET kept == Retained(report, filter)
            found == SumFound(kept, Len(kept))
            hit == SumHit(kept, Len(kept))
        IN  PctInRange(total[1].percentage) <=>
                \/ ~NumGtZero(found)
                \/ ~hit.nan /\ 0 <= hit.v /\ hit.v <= found.v

\* an aggregate of two kept records with 0 < hit < found
C8_Witness ==
    /\ total # <<>>
    /\ Len(total[1].files) = 2
    /\ total[1].found = Num(6)
    /\ total[1].hit = Num(3)
    /\ PctInRange(total[1].percentage)

----------------------------------------------------------------------------
(* C10: the order of the rows *)

CountIn(s, x) == Cardinality({ i \in 1..Len(s) : s[i] = x })

IsPermutation(s, t) ==
    /\ Len(s) = Len(t)
    /\ \A i \in 1..Len(s) : CountIn(s, s[i]) = CountIn(t, s[i])

\* the hit percentage of a file with lines.found > 0
HitPct(f) == Quotient(f.lines.hit, f.lines.found)

Lower(p, q) == ~p.nan /\ ~q.nan /\ p.num * q.den < q.num * p.den

HasLines(f) == NumGtZero(f.lines.found)

HasNoLines(f) == NumIsZero(f.lines.found)

RowOrder(rows, given) ==
    /\ IsPermutation(rows, given)
    /\ \A i, j \in 1..Len(rows) :
         i < j =>
           /\ ~(HasNoLines(rows[i]) /\ HasLines(rows[j]))
           /\ HasLines(rows[i]) /\ HasLines(rows[j]) =>
                /\ ~Lower(HitPct(rows[j]), HitPct(rows[i]))
                /\ PctSame(HitPct(rows[i]), HitPct(rows[j])) =>
                     rows[i].lines.found.v >= rows[j].lines.found.v
    /\ SelectSeq(rows, HasNoLines) = SelectSeq(given, HasNoLines)

\* C10: for every changed-files aggregate with found > 0 the rows are a
\* permutation of its files with the files without lines last and in input
\* order, and the files with lines by rising hit percentage, the larger
\* found first at equal percentage.
C10_RowOrder ==
    (sortedFiles # <<>> /\ NumGtZero(total[1].found)) =>
        RowOrder(sortedFiles[1], total[1].files)

\* the same law where every hit count of the aggregate is a number
RowOrderOfNumbers ==
    (sortedFiles # <<>> /\ NumGtZero(total[1].found)
        /\ \A i \in 1..Len(total[1].files) : ~total[1].files[i].lines.hit.nan) =>
        RowOrder(sortedFiles[1], total[1].files)

----------------------------------------------------------------------------
(* buildComment and its sections.  A document is the sequence of its text  *)
(* segments; the glyphs are written (ok) and (x), the code quotes are left  *)
(* out.                                                                    *)

LCOV_COMMENT_MARKER == "<!-- lcov-comment -->"

MAX_FILES_PER_PAGE == 100

\* parseFloat(input) || 0, on whole numbers
OrZero(x) == IF x.nan THEN 0 ELSE x.v

\* percentage >= min
PctAtLeast(p, min) == ~p.nan /\ p.num >= min * p.den

\* percentage.toFixed(1)
ToFixed1(p) ==
    IF p.nan THEN "NaN"
    ELSE LET a == IF p.num < 0 THEN -p.num ELSE p.num
             t == (20 * a + p.den) \div (2 * p.den)
         IN  (IF p.num < 0 THEN "-" ELSE "")
                 \o ToString(t \div 10) \o "." \o ToString(t % 10)

\* found.toLocaleString() and `${found}`, below one thousand
NumText(n) == IF n.nan THEN "NaN" ELSE ToString(n.v)

Glyph(ok) == IF ok THEN "(ok)" ELSE "(x)"

ThresholdLine(cov, min) ==
    LET pct == ToFixed1(cov.percentage)
        passed == PctAtLeast(cov.percentage, min)
    IN  IF min > 0
        THEN Glyph(passed) \o " **" \o pct \o "%** of " \o NumText(cov.found)
                 \o " lines (threshold: " \o ToString(min) \o "%)"
        ELSE "**" \o pct \o "%** of " \o NumText(cov.found) \o " lines"

buildAllFilesSection(cov, min) ==
    IF NumIsZero(cov.found)
    THEN <<"### All files", "No coverage data available">>
    ELSE <<"### All files", ThresholdLine(cov, min)>>

RECURSIVE PathText(_)
PathText(segs) ==
    IF segs = <<>> THEN ""
    ELSE IF Len(segs) = 1 THEN segs[1]
    ELSE segs[1] \o "/" \o PathText(Tail(segs))

TableRow(f) ==
    IF NumIsZero(f.lines.found) THEN "| " \o PathText(f.file) \o " | - |"
    ELSE "| " \o PathText(f.file) \o " | "
             \o ToFixed1(calculatePercentage(f.lines.hit, f.lines.found))
             \o "% of " \o NumText(f.lines.found) \o " lines |"

buildEnhancedTable(fs) ==
    IF Len(fs) = 0 THEN <<>>
    ELSE <<"| File | Coverage |", "| --- | --- |">>
             \o [i \in 1..Len(fs) |-> TableRow(fs[i])]

buildChangedFilesSection(cov, min) ==
    IF NumIsZero(cov.found)
    THEN <<"### Changed files", "Changed files not in coverage">>
    ELSE <<"### Changed files", ThresholdLine(cov, min)>>
             \o buildEnhancedTable(SortFiles(cov.files))

buildPerformanceSection(summary) ==
    IF summary = <<>> THEN <<>>
    ELSE <<"### Test performance", summary[1]>>

buildComment(allCov, changedCov, allMin, changedMin, passed, hasChanged, testSummary) ==
    LET hasThresholds == allMin > 0 \/ changedMin > 0
        emoji == IF hasThresholds THEN Glyph(passed) ELSE ""
        header == "## " \o emoji \o " LCOV report"
        changedSection ==
            IF hasChanged THEN buildChangedFilesSection(changedCov, changedMin)
            ELSE <<"### Changed files", "> No files changed">>
    IN  <<LCOV_COMMENT_MARKER, header>>
            \o buildAllFilesSection(allCov, allMin)
            \o changedSection
            \o buildPerformanceSection(testSummary)

----------------------------------------------------------------------------
(* postComment *)

\* c.body?.includes(LCOV_COMMENT_MARKER); a comment without body is <<>>
HasMarker(body) == \E i \in 1..Len(body) : body[i] = LCOV_COMMENT_MARKER

Min(a, b) == IF a < b THEN a ELSE b

\* the data of listComments: the first page
FirstPage(cs) == SubSeq(cs, 1, Min(Len(cs), MAX_FILES_PER_PAGE))

\* comments.find(c => c.body?.includes(LCOV_COMMENT_MARKER)), as an optional id
FindExisting(page) ==
    LET S == { i \in 1..Len(page) : HasMarker(page[i].body) }
    IN  IF S = {} THEN <<>>
        ELSE <<page[CHOOSE i \in S : \A k \in S : i <= k].id>>

\* the error of a statement reaches the catch of run
Catch(p, at) ==
    /\ failed' = Append(failed, "Action failed")
    /\ thrown' = at
    /\ pc' = [pc EXCEPT ![p] = "done"]

ListComments(p) ==
    /\ pc[p] = "list"
    /\ calls' = [calls EXCEPT !.list = @ + 1]
    /\ existing' = [existing EXCEPT ![p] = FindExisting(FirstPage(comments))]
    /\ pc' = [pc EXCEPT ![p] = "write"]
    /\ UNCHANGED <<comment, comments, comments0, runs, lastDoc>>
    /\ UNCHANGED <<parseVars, aggVars, runVars>>

ListCommentsFails(p) ==
    /\ pc[p] = "list"
    /\ calls' = [calls EXCEPT !.list = @ + 1]
    /\ Catch(p, "list")
    /\ UNCHANGED <<comment, existing, comments, comments0, runs, lastDoc>>
    /\ UNCHANGED <<parseVars, aggVars, input, local>>

UpdateBody(cs, id, body) ==
    [i \in 1..Len(cs) |-> IF cs[i].id = id THEN [cs[i] EXCEPT !.body = body]
                          ELSE cs[i]]

WriteComment_AlwaysCreate(p) ==
    /\ pc[p] = "write"
    /\ calls' = [calls EXCEPT !.create = @ + 1]
    /\ comments' = Append(comments, [id |-> Len(comments) + 1, body |-> comment[p]])
    /\ pc' = [pc EXCEPT ![p] = "done"]
    /\ runs' = runs + 1
    /\ lastDoc' = <<comment[p]>>
    /\ UNCHANGED <<comment, existing, comments0>>
    /\ UNCHANGED <<parseVars, aggVars, runVars>>

\* updateComment when a marker comment was found, createComment otherwise
WriteComment(p) ==
    /\ pc[p] = "write"
    /\ IF existing[p] # <<>>
       THEN /\ calls' = [calls EXCEPT !.update = @ + 1]
            /\ comments' = UpdateBody(comments, existing[p][1], comment[p])
       ELSE /\ calls' = [calls EXCEPT !.create = @ + 1]
            /\ comments' = Append(comments,
                                  [id |-> Len(comments) + 1, body |-> comment[p]])
    /\ pc' = [pc EXCEPT ![p] = "done"]
    /\ runs' = runs + 1
    /\ lastDoc' = <<comment[p]>>
    /\ UNCHANGED <<comment, existing, comments0>>
    /\ UNCHANGED <<parseVars, aggVars, runVars>>

WriteCommentFails(p) ==
    /\ pc[p] = "write"
    /\ IF existing[p] # <<>>
       THEN calls' = [calls EXCEPT !.update = @ + 1]
       ELSE calls' = [calls EXCEPT !.create = @ + 1]
    /\ Catch(p, "write")
    /\ UNCHANGED <<comment, existing, comments, comments0, runs, lastDoc>>
    /\ UNCHANGED <<parseVars, aggVars, input, local>>

----------------------------------------------------------------------------
(* run *)

Threshold == "Coverage is below the minimum threshold"

\* the required inputs are read; the coverage file exists
ReadInputs ==
    /\ pc[1] = "inputs"
    /\ input.lcovExists
    /\ pc' = [pc EXCEPT ![1] = "parse"]
    /\ UNCHANGED <<calls, comment, existing, comments, comments0, runs, lastDoc>>
    /\ UNCHANGED <<parseVars, aggVars, runVars>>

\* throw new Error(`LCOV file not found: ...`)
LcovFileMissing ==
    /\ pc[1] = "inputs"
    /\ ~input.lcovExists
    /\ Catch(1, "inputs")
    /\ UNCHANGED <<calls, comment, existing, comments, comments0, runs, lastDoc>>
    /\ UNCHANGED <<parseVars, aggVars, input, local>>

\* const coverage = parseLcovFile(lcovFile)
ParseFile ==
    /\ pc[1] = "parse"
    /\ local' = [local EXCEPT !.coverage = parseLcovFile(input.lcovContent)]
    /\ pc' = [pc EXCEPT ![1] = "changed"]
    /\ UNCHANGED <<calls, comment, existing, comments, comments0, runs, lastDoc>>
    /\ UNCHANGED <<parseVars, aggVars, input, failed, thrown>>

\* const changedFiles = await getChangedFiles(githubToken)
GetChangedFiles ==
    /\ pc[1] = "changed"
    /\ IF input.eventName # "pull_request"
       THEN /\ local' = [local EXCEPT !.changedFiles = {}]
            /\ UNCHANGED calls
       ELSE /\ local' = [local EXCEPT !.changedFiles = input.apiFiles]
            /\ calls' = [calls EXCEPT !.compare = @ + 1]
    /\ pc' = [pc EXCEPT ![1] = "check"]
    /\ UNCHANGED <<comment, existing, comments, comments0, runs, lastDoc>>
    /\ UNCHANGED <<parseVars, aggVars, input, failed, thrown>>

GetChangedFilesFails_Swallowed ==
    /\ pc[1] = "changed"
    /\ input.eventName = "pull_request"
    /\ calls' = [calls EXCEPT !.compare = @ + 1]
    /\ failed' = Append(failed, "Action failed")
    /\ thrown' = "changed"
    /\ pc' = [pc EXCEPT ![1] = "check"]
    /\ UNCHANGED <<comment, existing, comments, comments0, runs, lastDoc>>
    /\ UNCHANGED <<parseVars, aggVars, input, local>>

\* compareCommitsWithBasehead rejects
GetChangedFilesFails ==
    /\ pc[1] = "changed"
    /\ input.eventName = "pull_request"
    /\ calls' = [calls EXCEPT !.compare = @ + 1]
    /\ Catch(1, "changed")
    /\ UNCHANGED <<comment, existing, comments, comments0, runs, lastDoc>>
    /\ UNCHANGED <<parseVars, aggVars, input, local>>

CheckThresholds_ChangedAlways ==
    /\ pc[1] = "check"
    /\ LET allCoverage == calculateCoverage(local.coverage, <<>>)
           changedCoverage == calculateCoverage(local.coverage, <<local.changedFiles>>)
           allPassed == PctAtLeast(allCoverage.percentage, OrZero(input.allMin))
           changedPassed ==
               PctAtLeast(changedCoverage.percentage, OrZero(input.changedMin))
           passed == allPassed /\ changedPassed
       IN  /\ local' = [local EXCEPT !.allCoverage = <<allCoverage>>,
                                     !.changedCoverage = <<changedCoverage>>,
                                     !.passed = passed]
           /\ failed' = IF ~passed THEN Append(failed, Threshold) ELSE failed
    /\ pc' = [pc EXCEPT ![1] = "report"]
    /\ UNCHANGED <<calls, comment, existing, comments, comments0, runs, lastDoc>>
    /\ UNCHANGED <<parseVars, aggVars, input, thrown>>

\* the two aggregates, passed, and core.setFailed when not passed
CheckThresholds ==
    /\ pc[1] = "check"
    /\ LET allCoverage == calculateCoverage(local.coverage, <<>>)
           changedCoverage == calculateCoverage(local.coverage, <<local.changedFiles>>)
           allPassed == PctAtLeast(allCoverage.percentage, OrZero(input.allMin))
           changedPassed ==
               \/ Cardinality(local.changedFiles) = 0
               \/ PctAtLeast(changedCoverage.percentage, OrZero(input.changedMin))
           passed == allPassed /\ changedPassed
       IN  /\ local' = [local EXCEPT !.allCoverage = <<allCoverage>>,
                                     !.changedCoverage = <<changedCoverage>>,
                                     !.passed = passed]
           /\ failed' = IF ~passed THEN Append(failed, Threshold) ELSE failed
    /\ pc' = [pc EXCEPT ![1] = "report"]
    /\ UNCHANGED <<calls, comment, existing, comments, comments0, runs, lastDoc>>
    /\ UNCHANGED <<parseVars, aggVars, input, thrown>>

RunComment ==
    buildComment(local.allCoverage[1], local.changedCoverage[1],
                 OrZero(input.allMin), OrZero(input.changedMin), local.passed,
                 Cardinality(local.changedFiles) > 0, input.testSummary)

Report_OnlyWhenPassed ==
    /\ pc[1] = "report"
    /\ IF input.eventName = "pull_request" /\ local.passed
       THEN /\ comment' = [comment EXCEPT ![1] = RunComment]
            /\ pc' = [pc EXCEPT ![1] = "list"]
       ELSE /\ pc' = [pc EXCEPT ![1] = "done"]
            /\ UNCHANGED comment
    /\ UNCHANGED <<calls, existing, comments, comments0, runs, lastDoc>>
    /\ UNCHANGED <<parseVars, aggVars, runVars>>

\* on a pull_request event the comment is built and postComment is called
Report ==
    /\ pc[1] = "report"
    /\ IF input.eventName = "pull_request"
       THEN /\ comment' = [comment EXCEPT ![1] = RunComment]
            /\ pc' = [pc EXCEPT ![1] = "list"]
       ELSE /\ pc' = [pc EXCEPT ![1] = "done"]
            /\ UNCHANGED comment
    /\ UNCHANGED <<calls, existing, comments, comments0, runs, lastDoc>>
    /\ UNCHANGED <<parseVars, aggVars, runVars>>

----------------------------------------------------------------------------
(* One run of the action *)

Block(path, lf, lh) ==
    <<Line("SF:", path), Line("LF:", lf), Line("LH:", lh),
      Line("end_of_record", <<>>)>>

\* the records a coverage file of the model has for one source file
BlocksOf(path) ==
    { <<>>, Block(path, <<"2">>, <<"1">>), Block(path, <<"2">>, <<"2">>),
      Block(path, <<"x">>, <<"1">>), Block(path, <<"2">>, <<>>) }

LcovContents == { x \o y : x \in BlocksOf(<<"a">>), y \in BlocksOf(<<".", "b">>) }

\* what parseFloat makes of the threshold inputs
ThresholdInputs == {NaN, Num(50), Num(80)}

RunInputs ==
    [lcovExists : BOOLEAN, lcovContent : LcovContents,
     eventName : {"pull_request", "push"},
     allMin : ThresholdInputs, changedMin : ThresholdInputs,
     apiFiles : {{}, {<<"a">>}, {<<"a">>, <<"b">>}, {<<"c">>}},
     testSummary : {<<>>, <<"Finished in 1.2 seconds">>}]

ZeroAggregate ==
    [found |-> Num(0), hit |-> Num(0), percentage |-> PctZero, files |-> <<>>]

\* a document of an earlier run
OldDoc == buildComment(ZeroAggregate, ZeroAggregate, 0, 0, TRUE, FALSE, <<>>)

Plain == [id |-> 0, body |-> <<"LGTM">>]

Marked == [id |-> 0, body |-> OldDoc]

\* a comment a person wrote that quotes the marker
Quoting == [id |-> 0, body |-> <<"what is", LCOV_COMMENT_MARKER, "?">>]

NoBody == [id |-> 0, body |-> <<>>]

\* the comments get their ids in order of creation
WithIds(cs) == [i \in 1..Len(cs) |-> [cs[i] EXCEPT !.id = i]]

Init ==
    /\ ParseIdle
    /\ AggIdle
    /\ input \in RunInputs
    /\ local = NoLocal
    /\ failed = <<>>
    /\ thrown = ""
    /\ pc = [p \in Procs |-> IF p = 1 THEN "inputs" ELSE "off"]
    /\ calls = NoCalls
    /\ comment = [p \in Procs |-> <<>>]
    /\ existing = [p \in Procs |-> <<>>]
    /\ comments \in {<<>>, WithIds(<<Plain, Marked>>)}
    /\ comments0 = comments
    /\ runs = 0
    /\ lastDoc = <<>>

Next ==
    \/ ReadInputs
    \/ LcovFileMissing
    \/ ParseFile
    \/ GetChangedFiles
    \/ GetChangedFilesFails
    \/ CheckThresholds
    \/ Report
    \/ ListComments(1)
    \/ ListCommentsFails(1)
    \/ WriteComment(1)
    \/ WriteCommentFails(1)

Spec == Init /\ [][Next]_vars

----------------------------------------------------------------------------
(* C2, C3, C4, C5: one run *)

Range(s) == { s[i] : i \in 1..Len(s) }

IsPullRequest == input.eventName = "pull_request"

Finished == pc[1] = "done"

\* the text of a count: digits only
WellFormedCount(text) == text # <<>> /\ \A i \in 1..Len(text) : text[i] \in Digits

\* the text of an integer: digits after an optional sign
WellFormedInteger(text) ==
    \/ WellFormedCount(text)
    \/ Len(text) > 1 /\ text[1] \in {"-", "+"} /\ WellFormedCount(Tail(text))

WellFormedContent(ls) ==
    \A i \in 1..Len(ls) : ls[i].tag \in {"LF:", "LH:"} => WellFormedCount(ls[i].rest)

\* an 'LF:' or 'LH:' line inside an open record without a well-formed integer
HasMalformedField(ls) ==
    \E i \in 1..Len(ls) :
        /\ ls[i].tag \in {"LF:", "LH:"}
        /\ OpenerBefore(ls, i) # {}
        /\ ~WellFormedInteger(ls[i].rest)

\* the percentage of hit over found is below min (0 when found is 0)
BelowMinimum(hit, found, min) ==
    IF found.v > 0 THEN 100 * hit.v < min * found.v ELSE 0 < min

\* C2: on a report of well-formed non-negative counts, a run without fatal
\* error signals the threshold failure if and only if the all-files
\* percentage is below all-files-minimum-coverage, or the changed-file set is
\* not empty and the changed-files percentage is below
\* changed-files-minimum-coverage; with both thresholds at 0 it never fails.
C2_FailureIffBelowMinimum ==
    (Finished /\ thrown = "" /\ WellFormedContent(input.lcovContent)) =>
        LET rep == ExpectedFiles(input.lcovContent)
            changed == IF IsPullRequest THEN input.apiFiles ELSE {}
            kept == Retained(rep, <<changed>>)
            allMin == IF input.allMin.nan THEN 0 ELSE input.allMin.v
            changedMin == IF input.changedMin.nan THEN 0 ELSE input.changedMin.v
            allBelow ==
                BelowMinimum(SumHit(rep, Len(rep)), SumFound(rep, Len(rep)), allMin)
            changedBelow ==
                BelowMinimum(SumHit(kept, Len(kept)), SumFound(kept, Len(kept)),
                             changedMin)
        IN  /\ (Threshold \in Range(failed)) <=>
                   (allBelow \/ (changed # {} /\ changedBelow))
            /\ (allMin = 0 /\ changedMin = 0) => failed = <<>>

\* a run that passes the all-files half and fails on the changed files only
C2_Witness ==
    /\ Finished /\ thrown = ""
    /\ WellFormedContent(input.lcovContent)
    /\ local.changedFiles = {<<"a">>}
    /\ PctAtLeast(local.allCoverage[1].percentage, OrZero(input.allMin))
    /\ OrZero(input.allMin) > 0
    /\ failed = <<Threshold>>

\* C3: in a run without fatal error a comment is created or updated if and
\* only if the event is 'pull_request', whatever the outcome of the
\* thresholds: the failing status is set before the comment is posted and
\* does not stop it, and on any other event no call of the comment store is
\* made while the status is still computed and signalled.
C3_CommentIffPullRequest ==
    /\ (Finished /\ thrown = "") =>
          /\ (calls.create + calls.update = 1) <=> IsPullRequest
          /\ IsPullRequest =>
                \E i \in 1..Len(comments) :
                    comments[i].body = comment[1] /\ HasMarker(comment[1])
          /\ ~IsPullRequest =>
                /\ calls.list = 0 /\ calls.create = 0 /\ calls.update = 0
                /\ comments = comments0
          /\ (Threshold \in Range(failed)) <=> ~local.passed
    /\ (pc[1] \in {"list", "write"} /\ ~local.passed) => Threshold \in Range(failed)

\* a run on a pull request that failed a threshold and updated the comment
C3_Witness ==
    /\ Finished /\ thrown = ""
    /\ IsPullRequest
    /\ ~local.passed
    /\ failed = <<Threshold>>
    /\ calls.update = 1
    /\ comments[2].body = comment[1]

\* C4: an 'LF:' or 'LH:' line inside an open record with a malformed or
\* missing integer makes the parse fail: the run does not get past the parse,
\* and it ends with the failure reported and no comment written.
C4_MalformedFieldIsFatal ==
    (input.lcovExists /\ HasMalformedField(input.lcovContent)) =>
        /\ pc[1] \notin {"changed", "check", "report", "list", "write"}
        /\ Finished =>
              /\ "Action failed" \in Range(failed)
              /\ calls.create = 0 /\ calls.update = 0
              /\ comments = comments0

\* C5: every platform operation is called at most once in a run; an error
\* ends the run at once with the failing status set; after a missing
\* coverage file nothing was called or computed, after a failure of the
\* changed-file lister or of the comment list no comment was created or
\* updated, and a failed create or update was not tried again.
C5_FailFastSingleAttempt ==
    /\ calls.compare <= 1 /\ calls.list <= 1
    /\ calls.create + calls.update <= 1
    /\ (~input.lcovExists /\ pc[1] # "inputs") => thrown = "inputs"
    /\ thrown # "" =>
          /\ Finished
          /\ failed # <<>> /\ failed[Len(failed)] = "Action failed"
          /\ comments = comments0
    /\ thrown = "inputs" => calls = NoCalls /\ local = NoLocal
    /\ thrown = "changed" =>
          /\ calls = [NoCalls EXCEPT !.compare = 1]
          /\ local.allCoverage = <<>> /\ local.changedCoverage = <<>>
          /\ comment[1] = <<>>
    /\ thrown = "list" => calls.create = 0 /\ calls.update = 0
    /\ thrown = "write" => calls.create + calls.update = 1

\* a run whose update call failed after a threshold failure
C5_Witness ==
    /\ Finished
    /\ thrown = "write"
    /\ failed = <<Threshold, "Action failed">>
    /\ calls = [compare |-> 1, list |-> 1, create |-> 0, update |-> 1]

----------------------------------------------------------------------------
(* Successive runs of postComment on one pull request *)

HalfAggregate ==
    calculateCoverage(<<[file |-> <<"a">>, lines |-> [found |-> Num(2), hit |-> Num(1)]]>>,
                      <<>>)

\* the documents of the runs
Docs ==
    { buildComment(HalfAggregate, HalfAggregate, 0, 0, TRUE, TRUE, <<>>),
      buildComment(HalfAggregate, ZeroAggregate, 80, 0, FALSE, FALSE, <<>>) }

\* n comments without the marker
PlainRun(n) == [i \in 1..n |-> Plain]

\* the comments at the start: up to a page of plain comments, then a few of any kind
StartComments ==
    { WithIds(PlainRun(n) \o tail) :
        n \in {0, 1, MAX_FILES_PER_PAGE - 1, MAX_FILES_PER_PAGE},
        tail \in BoundedSeq({Plain, Marked, Quoting, NoBody}, MaxTail) }

RerunInit ==
    /\ ParseIdle
    /\ AggIdle
    /\ RunIdle
    /\ pc = [p \in Procs |-> IF p = 1 THEN "list" ELSE "off"]
    /\ calls = NoCalls
    /\ comment \in { [p \in Procs |-> IF p = 1 THEN d ELSE <<>>] : d \in Docs }
    /\ existing = [p \in Procs |-> <<>>]
    /\ comments \in StartComments
    /\ comments0 = comments
    /\ runs = 0
    /\ lastDoc = <<>>

\* the next run on the same pull request calls postComment with its document
Rerun ==
    /\ pc[1] = "done"
    /\ runs < MaxRuns
    /\ \E d \in Docs : comment' = [comment EXCEPT ![1] = d]
    /\ existing' = [existing EXCEPT ![1] = <<>>]
    /\ pc' = [pc EXCEPT ![1] = "list"]
    /\ calls' = NoCalls
    /\ UNCHANGED <<comments, comments0, runs, lastDoc>>
    /\ UNCHANGED <<parseVars, aggVars, runVars>>

RerunNext == ListComments(1) \/ WriteComment(1) \/ Rerun

SpecRerun == RerunInit /\ [][RerunNext]_vars

----------------------------------------------------------------------------
(* C1 *)

MarkerComments(cs) == { i \in 1..Len(cs) : HasMarker(cs[i].body) }

OneMarkerCommentWith(cs, doc) ==
    \E i \in 1..Len(cs) : MarkerComments(cs) = {i} /\ cs[i].body = doc

\* C1 as stated: from any starting comment list, after one or more completed
\* runs of postComment the list holds exactly one comment with the marker,
\* and its body is the document of the most recent run.
C1_AsStated ==
    (runs >= 1 /\ pc[1] = "done") => OneMarkerCommentWith(comments, lastDoc[1])

\* the starting lists on which the reconciliation works: at most one comment
\* has the marker; it is on the first page, or there is none and the list is
\* shorter than a page
StartFits(cs) ==
    /\ Cardinality(MarkerComments(cs)) <= 1
    /\ \A i \in MarkerComments(cs) : i <= MAX_FILES_PER_PAGE
    /\ MarkerComments(cs) = {} => Len(cs) < MAX_FILES_PER_PAGE

\* C1 (amended): when at the start at most one comment has the marker, and
\* it is among the first 100 comments or there is none and the list has
\* fewer than 100 comments, then after one or more completed runs of
\* postComment the list holds exactly one comment with the marker, its body
\* is the document of the most recent run, and the list grew by one comment
\* if it had none with the marker and not at all otherwise.
C1_OneMarkerCommentAfterRuns ==
    (runs >= 1 /\ pc[1] = "done" /\ StartFits(comments0)) =>
        /\ OneMarkerCommentWith(comments, lastDoc[1])
        /\ lastDoc[1] = comment[1]
        /\ Len(comments) =
               Len(comments0) + (IF MarkerComments(comments0) = {} THEN 1 ELSE 0)

\* three runs from a list one short of a page with no marker comment: the
\* created comment is the last of the first page and is updated afterwards
C1_Witness ==
    /\ runs = 3 /\ pc[1] = "done"
    /\ MarkerComments(comments0) = {}
    /\ Len(comments0) = MAX_FILES_PER_PAGE - 1
    /\ MarkerComments(comments) = {MAX_FILES_PER_PAGE}
    /\ calls.update = 1

----------------------------------------------------------------------------
(* Two runs on one pull request at the same time *)

ConcInit ==
    /\ ParseIdle
    /\ AggIdle
    /\ RunIdle
    /\ pc = [p \in Procs |-> "list"]
    /\ calls = NoCalls
    /\ comment \in [Procs -> Docs]
    /\ existing = [p \in Procs |-> <<>>]
    /\ comments \in { WithIds(cs) :
                        cs \in {<<>>, <<Plain>>, <<Marked>>, <<Plain, Marked>>,
                                <<NoBody, Plain>>, <<Marked, Plain>>} }
    /\ comments0 = comments
    /\ runs = 0
    /\ lastDoc = <<>>

ConcNext == \E p \in Procs : ListComments(p) \/ WriteComment(p)

SpecConc == ConcInit /\ [][ConcNext]_vars

\* C6: whatever the interleaving of the list and create-or-update steps of
\* two runs on the same pull request, starting with no marker comment or
\* with one, the comment list ends with exactly one comment with the marker.
C6_OneMarkerCommentAfterBoth ==
    (\A p \in Procs : pc[p] = "done") => Cardinality(MarkerComments(comments)) = 1

\* the same where the list held a marker comment at the start
OneMarkerWhenOneAtStart ==
    ((\A p \in Procs : pc[p] = "done") /\ MarkerComments(comments0) # {}) =>
        Cardinality(MarkerComments(comments)) = 1

====
